---- MODULE Spec2Model ----
(***************************************************************************)
(* Report downloader: the server's in-memory job store and its three       *)
(* routes (generate, status stream, download), with the completion timer   *)
(* and the status poll timer, as a state machine over a wall clock; and    *)
(* the client hook useReportGeneration (job list, event sources, panel,    *)
(* local storage) driven by the frames the server writes.                  *)
(***************************************************************************)
EXTENDS Integers, Sequences, FiniteSets, TLC

\* ------------------------------------------------------------------ bounds

\* number of distinct ids the id generator can hand out in a run
MaxJobs == 2
\* number of requests the server handles in a run
MaxRequests == 3
\* number of clock advances in a run
MaxTicks == 2

\* -------------------------------------------------------- program constants

\* index.ts:40  delay for a name containing 'sales'
SalesDelay == 8000
\* index.ts:40  delay for any other name
DefaultDelay == 5000
\* index.ts:105 setTimeout(checkStatus, 50000)
PollInterval == 50000
\* index.ts:82, 125  30 * 60 * 1000
ExpiryWindow == 1800000

\* ------------------------------------------------------------ text helpers

UpperLetters == <<"A","B","C","D","E","F","G","H","I","J","K","L","M",
                  "N","O","P","Q","R","S","T","U","V","W","X","Y","Z">>
LowerLetters == <<"a","b","c","d","e","f","g","h","i","j","k","l","m",
                  "n","o","p","q","r","s","t","u","v","w","x","y","z">>

LowerChar(c) ==
    IF \E i \in DOMAIN UpperLetters : UpperLetters[i] = c
    THEN LowerLetters[CHOOSE i \in DOMAIN UpperLetters : UpperLetters[i] = c]
    ELSE c

\* String.prototype.toLowerCase on a sequence of characters
toLowerCase(s) == [i \in 1..Len(s) |-> LowerChar(s[i])]

\* String.prototype.includes
includes(s, sub) ==
    \E i \in 1..(Len(s) - Len(sub) + 1) : SubSeq(s, i, i + Len(sub) - 1) = sub

\* the characters /\s/ matches, of those the inputs use
IsSpace(c) == c \in {" ", "\t"}

RECURSIVE DropSpaces(_)
DropSpaces(s) ==
    IF s # <<>> /\ IsSpace(Head(s)) THEN DropSpaces(Tail(s)) ELSE s

\* s.replace(/\s+/g, '-'): every maximal run of whitespace becomes one '-'
RECURSIVE replaceSpaces(_)
replaceSpaces(s) ==
    IF s = <<>> THEN <<>>
    ELSE IF IsSpace(Head(s)) THEN <<"-">> \o replaceSpaces(DropSpaces(Tail(s)))
    ELSE <<Head(s)>> \o replaceSpaces(Tail(s))

Sales == <<"s","a","l","e","s">>

\* ----------------------------------------------------- request body values

\* req.body.name after express.json(): absent, a string, or another JSON value
JsonUndefined == [type |-> "undefined", str |-> <<>>, num |-> 0]
JsonString(s) == [type |-> "string", str |-> s, num |-> 0]
JsonNumber(n) == [type |-> "number", str |-> <<>>, num |-> n]

SalesReport == <<"S","a","l","e","s"," ","R","e","p","o","r","t">>
StockList == <<"S","t","o","c","k"," "," ","L","i","s","t">>

\* the names a generation request may carry
Names ==
    { JsonUndefined, JsonString(<<>>), JsonString(SalesReport),
      JsonString(StockList), JsonNumber(7) }

\* a presence check in place of the truthiness check: `name === undefined`
TruthyPresent(v) == v.type # "undefined"

\* JavaScript truthiness of the name: `!name` is its negation
Truthy(v) ==
    CASE v.type = "string" -> v.str # <<>>
      [] v.type = "number" -> v.num # 0
      [] OTHER -> FALSE

\* name.toLowerCase is a function only on a string; calling it otherwise throws
HasToLowerCase(v) == v.type = "string"

\* name.toLowerCase().includes('sales')
IsSalesName(v) == includes(toLowerCase(v.str), Sales)

\* the universe of ids
UUIDs == 1..MaxJobs

VARIABLES
    reports,    \* the job store: a function from the ids present to their records
    timers,     \* the completion timers scheduled and not yet fired
    streams,    \* the status streams opened, in order of opening
    issued,     \* the ids the id generator has returned
    now,        \* Date.now()
    ticks,      \* number of clock advances so far
    requests,   \* number of requests handled so far
    res,        \* the response of the last request handled
    jobs,       \* the hook's job list (useState)
    sources,    \* eventSourcesRef.current: the event sources registered, by job id
    showDownloadSection,    \* whether the panel is shown
    isStatusOpen,           \* whether the panel is expanded
    storage,    \* localStorage under the storage key
    navigated,  \* per job id, how often the download navigation was triggered
    removed,    \* the job ids handleRemoveJob was called with
    opens,      \* per job id, the event sources constructed in this page session
    closes      \* per job id, the calls of EventSource.close() in this page session

\* the server's variables and the client's
svars == <<reports, timers, streams, issued, now, ticks, requests, res>>
cvars == <<jobs, sources, showDownloadSection, isStatusOpen, storage,
           navigated, removed, opens, closes>>

vars == <<reports, timers, streams, issued, now, ticks, requests, res,
          jobs, sources, showDownloadSection, isStatusOpen, storage,
          navigated, removed, opens, closes>>

\* ------------------------------------------------------------ the job store

\* Map.prototype.set / delete / has on the store
MapSet(m, k, v) == (k :> v) @@ m
MapDelete(m, k) == [x \in DOMAIN m \ {k} |-> m[x]]
MapHas(m, k) == k \in DOMAIN m

\* the record written at creation
PendingRecord(name, createdAt) ==
    [status |-> "pending", name |-> name, createdAt |-> createdAt]

\* a completion that writes the record of the catch branch
CompletedRecordAsFailed(name, createdAt, filePath) ==
    [status |-> "failed", name |-> name, createdAt |-> createdAt,
     error |-> "Failed to generate report"]

\* the completed record stamped with the time of completion
CompletedRecordStamped(name, createdAt, filePath) ==
    [status |-> "completed", name |-> name, createdAt |-> now,
     filePath |-> filePath]

\* the record the completion timer writes in its try block
CompletedRecord(name, createdAt, filePath) ==
    [status |-> "completed", name |-> name, createdAt |-> createdAt,
     filePath |-> filePath]

\* the record the completion timer writes in its catch block
FailedRecord(name, createdAt) ==
    [status |-> "failed", name |-> name, createdAt |-> createdAt,
     error |-> "Failed to generate report"]

\* `/reports/${name.toLowerCase().replace(/\s+/g, '-')}-${jobId}.csv`
FilePath(name, jobId) ==
    [dir |-> "/reports/", slug |-> replaceSpaces(toLowerCase(name.str)),
     id |-> jobId, ext |-> ".csv"]

\* a completion delay longer than the expiry window
DelayBeyondExpiry(name) == ExpiryWindow + DefaultDelay

\* the completion delay chosen from the name
Delay(name) == IF IsSalesName(name) THEN SalesDelay ELSE DefaultDelay

\* an id generator that always returns the same id
uuidv4Fixed == {id \in UUIDs : \A other \in UUIDs : id <= other}

\* an id generator that only avoids the ids now in the store
uuidv4NotInStore ==
    {id \in UUIDs \ DOMAIN reports : \A other \in UUIDs \ DOMAIN reports : id <= other}

\* the id uuidv4() returns: one never returned before.  Ids are opaque, so the
\* least unused id stands for whichever fresh id the generator draws
uuidv4 == {id \in UUIDs \ issued : \A other \in UUIDs \ issued : id <= other}

\* report.createdAt < Date.now() - (30 * 60 * 1000)
IsExpired(report) == report.createdAt < now - ExpiryWindow

\* a readiness check that only excludes failed reports
IsReadyUnlessFailed(report) == report.status # "failed"

\* the negation of `report.status !== 'completed' || !report.filePath`
IsReady(report) == report.status = "completed" /\ "filePath" \in DOMAIN report

\* currentReport.status === 'completed' || currentReport.status === 'failed'
IsTerminal(report) == report.status \in {"completed", "failed"}

\* the CSV the download route builds from the name
CsvHeader == "id,name,value\n"
SalesRows == "1,Product A,1000\n2,Product B,2000\n3,Product C,3000"
ItemRows == "1,Item X,50\n2,Item Y,75\n3,Item Z,100"
\* a CSV that ignores the name
csvContentItems(report) == <<CsvHeader, ItemRows>>

csvContent(report) ==
    IF IsSalesName(report.name) THEN <<CsvHeader, SalesRows>>
    ELSE <<CsvHeader, ItemRows>>

\* a response: the route that answered, its input, the HTTP status and the body
Response(route, code, body) == [route |-> route, code |-> code, body |-> body]

ErrorBody(msg) == [error |-> msg]

\* a request arrives and is handled
Arrives == requests < MaxRequests /\ requests' = requests + 1

Init ==
    /\ reports = <<>>
    /\ timers = {}
    /\ streams = <<>>
    /\ issued = {}
    /\ now = 0
    /\ ticks = 0
    /\ requests = 0
    /\ res = Response("none", 0, [none |-> TRUE])
    /\ jobs = <<>>
    /\ sources = <<>>
    /\ showDownloadSection = FALSE
    /\ isStatusOpen = FALSE
    /\ storage = [present |-> TRUE, jobs |-> <<>>]
    /\ navigated = [id \in UUIDs |-> 0]
    /\ removed = {}
    /\ opens = [id \in UUIDs |-> 0]
    /\ closes = [id \in UUIDs |-> 0]

\* ------------------------------------------------- POST /api/generate-report

\* the request is rejected before anything is allocated
GenerateRejected(name) ==
    /\ Arrives
    /\ ~Truthy(name)
    /\ res' = Response("generate", 400, ErrorBody("Report name is required"))
    /\ UNCHANGED <<reports, timers, streams, issued, now, ticks>>

\* the record is stored, then the delay is computed and the timer scheduled;
\* computing the delay throws when the name has no toLowerCase, after the
\* record was stored and before the timer is scheduled (Express answers 500)
GenerateAccepted(name) ==
    /\ Arrives
    /\ Truthy(name)
    /\ \E jobId \in uuidv4 :
        /\ issued' = issued \cup {jobId}
        /\ reports' = MapSet(reports, jobId, PendingRecord(name, now))
        /\ IF HasToLowerCase(name)
           THEN /\ timers' = timers \cup
                      {[jobId |-> jobId, name |-> name, createdAt |-> now,
                        due |-> now + Delay(name)]}
                /\ res' = Response("generate", 200, [jobId |-> jobId])
           ELSE /\ timers' = timers
                /\ res' = Response("generate", 500,
                                   ErrorBody("name.toLowerCase is not a function"))
    /\ UNCHANGED <<streams, now, ticks>>

GenerateReport(name) == GenerateRejected(name) \/ GenerateAccepted(name)

\* the callback of the setTimeout scheduled by the generate route
CompletionTimer(t) ==
    /\ t \in timers
    /\ now >= t.due
    /\ timers' = timers \ {t}
    /\ reports' =
         IF HasToLowerCase(t.name)
         THEN MapSet(reports, t.jobId,
                     CompletedRecord(t.name, t.createdAt, FilePath(t.name, t.jobId)))
         ELSE MapSet(reports, t.jobId, FailedRecord(t.name, t.createdAt))
    /\ UNCHANGED <<streams, issued, now, ticks, requests, res>>

\* ------------------------------------------- GET /api/report-status/:jobId

NotFoundFrame == [error |-> "Report not found"]
ExpiredFrame == [error |-> "Report expired"]

\* a stream that was written one frame and ended
EndedStream(jobId, frame) ==
    [jobId |-> jobId, frames |-> <<frame>>, open |-> FALSE, due |-> 0]

\* a stream just opened, nothing written yet
NewStream(jobId) == [jobId |-> jobId, frames |-> <<>>, open |-> TRUE, due |-> 0]

\* res.write(frame) then res.end()
WriteAndEnd(s, frame) ==
    [s EXCEPT !.frames = Append(@, frame), !.open = FALSE, !.due = 0]

\* res.write(frame) then setTimeout(checkStatus, 50000)
WriteAndPoll(s, frame) ==
    [s EXCEPT !.frames = Append(@, frame), !.due = now + PollInterval]

\* one run of checkStatus on stream s, reading the store
checkStatus(s) ==
    IF ~MapHas(reports, s.jobId) THEN WriteAndEnd(s, NotFoundFrame)
    ELSE IF IsTerminal(reports[s.jobId]) THEN WriteAndEnd(s, reports[s.jobId])
    ELSE WriteAndPoll(s, reports[s.jobId])

ReportStatus(jobId) ==
    /\ Arrives
    /\ res' = Response("status", 200, [contentType |-> "text/event-stream"])
    /\ IF ~MapHas(reports, jobId)
       THEN /\ streams' = Append(streams, EndedStream(jobId, NotFoundFrame))
            /\ reports' = reports
       ELSE IF IsExpired(reports[jobId])
       THEN /\ reports' = MapDelete(reports, jobId)
            /\ streams' = Append(streams, EndedStream(jobId, ExpiredFrame))
       ELSE /\ streams' = Append(streams, checkStatus(NewStream(jobId)))
            /\ reports' = reports
    /\ UNCHANGED <<timers, issued, now, ticks>>

\* the callback of setTimeout(checkStatus, 50000) on stream i
PollTimer(i) ==
    /\ i \in DOMAIN streams
    /\ streams[i].open
    /\ now >= streams[i].due
    /\ streams' = [streams EXCEPT ![i] = checkStatus(streams[i])]
    /\ UNCHANGED <<reports, timers, issued, now, ticks, requests, res>>

\* ----------------------------------------- GET /api/download-report/:jobId

\* an unknown id answered like a report that is not ready
DownloadNotFoundAsNotReady ==
    Response("download", 400, ErrorBody("Report is not ready for download"))

\* the four answers of the download route
DownloadNotFound == Response("download", 404, ErrorBody("Report not found"))
DownloadNotReady ==
    Response("download", 400, ErrorBody("Report is not ready for download"))
DownloadExpired == Response("download", 400, ErrorBody("Report has expired"))
DownloadCsv(report) ==
    Response("download", 200,
             [csv |-> csvContent(report),
              contentType |-> "text/csv",
              filename |-> replaceSpaces(toLowerCase(report.name.str))])

DownloadReport(jobId) ==
    /\ Arrives
    /\ IF ~MapHas(reports, jobId)
       THEN /\ res' = DownloadNotFound
            /\ reports' = reports
       ELSE IF ~IsReady(reports[jobId])
       THEN /\ res' = DownloadNotReady
            /\ reports' = reports
       ELSE IF IsExpired(reports[jobId])
       THEN /\ reports' = MapDelete(reports, jobId)
            /\ res' = DownloadExpired
       ELSE /\ res' = DownloadCsv(reports[jobId])
            /\ reports' = reports
    /\ UNCHANGED <<timers, streams, issued, now, ticks>>

\* -------------------------------------------------------------- the clock

\* the times at which a scheduled callback is due: the completion timers and
\* the poll timers of the open streams
Deadlines ==
    {t.due : t \in timers} \cup
    {streams[i].due : i \in {k \in DOMAIN streams : streams[k].open}}

Earliest(S) == CHOOSE x \in S : \A y \in S : x <= y

\* the amounts by which the clock advances between two events
TickSteps == {DefaultDelay, PollInterval, ExpiryWindow, ExpiryWindow + 1}

\* where the clock stands after advancing by d: a callback runs when it is
\* due, so the clock stops at the earliest deadline on the way
Advance(d) ==
    IF Deadlines # {} /\ Earliest(Deadlines) < now + d
    THEN Earliest(Deadlines)
    ELSE now + d

Tick(d) ==
    /\ ticks < MaxTicks
    /\ Advance(d) > now
    /\ now' = Advance(d)
    /\ ticks' = ticks + 1
    /\ UNCHANGED <<reports, timers, streams, issued, requests, res>>

\* ------------------------------------------------ the client hook (part_000)

\* storageConfig.expiryTime: 30 * 60 * 1000
ExpiryTime == 1800000

\* the names the page sends (getJobName(jobData))
ClientNames == {JsonString(SalesReport), JsonString(StockList)}

\* job.status.status: absent when the frame merged into status carried none
StatusOf(j) ==
    IF "status" \in DOMAIN j.status.data THEN j.status.data.status ELSE "undefined"

\* { ...data, timestamp: Date.now() }
StatusObject(data) == [data |-> data, timestamp |-> now]

\* the job appended by onSuccess
NewJob(jobId, name) ==
    [id |-> jobId, status |-> StatusObject([status |-> "pending"]),
     name |-> name, createdAt |-> now, downloaded |-> FALSE]

\* the ids of the jobs of a list
JobIds(js) == {js[i].id : i \in DOMAIN js}

\* JSON.stringify(jobs) under the storage key, and JSON.parse of it; getItem
\* returns null when the key was never written.  Every field of a job is a
\* string, a number, a boolean or an object of these, which the round trip
\* through JSON text gives back unchanged
JSONstringify(js) == [present |-> TRUE, jobs |-> js]
JSONparse(text) == text.jobs

\* an initializer that filters on age only
RehydratedByAge(j) == now - j.createdAt < ExpiryTime

\* the useState initializer: the stored jobs that are neither completed nor
\* older than the expiry time
Rehydrated(j) == StatusOf(j) # "completed" /\ now - j.createdAt < ExpiryTime
InitialJobs(stored) ==
    IF stored.present THEN SelectSeq(JSONparse(stored), Rehydrated) ELSE <<>>

\* an event source just constructed for a job: not yet answered by the server
\* (conn = 0), no frame delivered, and the job its handlers closed over
NewSource(job) == [conn |-> 0, delivered |-> 0, job |-> job]

\* a connection effect that opens an event source for every pending job,
\* registered or not
NeedsSourceAlways(j, reg) == StatusOf(j) = "pending"

\* the jobs the connection effect opens an event source for
NeedsSource(j, reg) == StatusOf(j) = "pending" /\ j.id \notin DOMAIN reg
NewPendingIds(js, reg) == {js[i].id : i \in {k \in DOMAIN js : NeedsSource(js[k], reg)}}
JobWithId(js, id) == js[CHOOSE i \in DOMAIN js : js[i].id = id]

\* the registry after the connection effect has run on the list js
ConnectionEffect(js, reg) ==
    [id \in DOMAIN reg \cup NewPendingIds(js, reg) |->
        IF id \in DOMAIN reg THEN reg[id] ELSE NewSource(JobWithId(js, id))]

\* delete eventSourcesRef.current[id]
Deregister(reg, id) == [x \in DOMAIN reg \ {id} |-> reg[x]]

\* `data.status === 'completed' && !j.downloaded`
ShouldDownload(j, data) ==
    "status" \in DOMAIN data /\ data.status = "completed" /\ ~j.downloaded

\* an updater that records the status and never marks the job as downloaded
UpdatedJobUnmarked(j, data) == [j EXCEPT !.status = StatusObject(data)]

\* the job the onmessage updater returns for the job of the stream
UpdatedJob(j, data) ==
    IF ShouldDownload(j, data)
    THEN [j EXCEPT !.status = StatusObject(data), !.downloaded = TRUE]
    ELSE [j EXCEPT !.status = StatusObject(data)]

\* a handler that closes the event source on every message
ClosesOnAnyMessage(data) == TRUE

\* `data.status === 'completed' || data.status === 'failed'`
ClosesOnMessage(data) ==
    "status" \in DOMAIN data /\ data.status \in {"completed", "failed"}

\* an error handler that puts the job back as it was when its stream was opened
FailedJobAsOpened(job) == job

\* the job the onerror handler puts in place of the job of the stream
FailedJob(job) ==
    [job EXCEPT !.status =
        StatusObject([status |-> "failed", error |-> "Connection error"])]

\* the list handleRemoveJob keeps, and the one handleCancelAll keeps
WithoutJob(js, jobId) == LET Other(j) == j.id # jobId IN SelectSeq(js, Other)
\* a cancel-all that keeps every job that is not pending
NotPendingJobs(js) == LET Settled(j) == StatusOf(j) # "pending" IN SelectSeq(js, Settled)

CompletedJobs(js) == LET Done(j) == StatusOf(j) = "completed" IN SelectSeq(js, Done)

\* a removal that leaves the event source of the job open and registered
RegistryKept(reg, jobId) == reg

\* the registry after handleRemoveJob closed the job's event source, if any
RegistryAfterRemove(reg, jobId) == Deregister(reg, jobId)

\* one more in the count kept for every id of S
Counted(count, S) == [id \in DOMAIN count |-> IF id \in S THEN count[id] + 1 ELSE count[id]]

\* after a handler left the list js and the registry reg: the render commits the
\* list, the connection effect opens the missing event sources, and the
\* persistence effect writes the list to storage
Mount(js, reg, opened) ==
    /\ jobs' = js
    /\ sources' = ConnectionEffect(js, reg)
    /\ opens' = Counted(opened, NewPendingIds(js, reg))
    /\ storage' = JSONstringify(js)

Commit(js, reg) == Mount(js, reg, opens)

\* generateReport: the request is answered with a job id and onSuccess runs
ClientGenerate(name) ==
    /\ GenerateAccepted(name)
    /\ res'.code = 200
    /\ Commit(Append(jobs, NewJob(res'.body.jobId, name)), sources)
    /\ showDownloadSection' = TRUE
    /\ isStatusOpen' = TRUE
    /\ UNCHANGED <<navigated, removed, closes>>

\* the request of an event source reaches the status route
Connect(id) ==
    /\ id \in DOMAIN sources
    /\ sources[id].conn = 0
    /\ ReportStatus(id)
    /\ sources' = [sources EXCEPT ![id].conn = Len(streams) + 1]
    /\ UNCHANGED <<jobs, showDownloadSection, isStatusOpen, storage,
                   navigated, removed, opens, closes>>

\* the frames the server wrote on the connection of an event source
FramesFor(es) == IF es.conn = 0 THEN <<>> ELSE streams[es.conn].frames

\* eventSource.onmessage on the next frame of the stream of job id
OnMessage(id) ==
    /\ id \in DOMAIN sources
    /\ sources[id].delivered < Len(FramesFor(sources[id]))
    /\ LET data == FramesFor(sources[id])[sources[id].delivered + 1]
           Update(j) == IF j.id = id THEN UpdatedJob(j, data) ELSE j
           triggers == {j \in {jobs[i] : i \in DOMAIN jobs} :
                          j.id = id /\ ShouldDownload(j, data)}
       IN  /\ navigated' = Counted(navigated, {j.id : j \in triggers})
           /\ IF ClosesOnMessage(data)
              THEN /\ Commit([i \in DOMAIN jobs |-> Update(jobs[i])], Deregister(sources, id))
                   /\ closes' = Counted(closes, {id})
              ELSE /\ Commit([i \in DOMAIN jobs |-> Update(jobs[i])],
                             [sources EXCEPT ![id].delivered = @ + 1])
                   /\ closes' = closes
    /\ UNCHANGED <<svars, showDownloadSection, isStatusOpen, removed>>

\* eventSource.onerror of the stream of job id
OnError(id) ==
    /\ LET Fail(j) == IF j.id = id THEN FailedJob(sources[id].job) ELSE j
       IN  Commit([i \in DOMAIN jobs |-> Fail(jobs[i])], Deregister(sources, id))
    /\ closes' = Counted(closes, {id})
    /\ UNCHANGED <<svars, showDownloadSection, isStatusOpen, navigated, removed>>

\* the server has ended the stream and every frame of it was delivered
ServerEnded(es) ==
    /\ es.conn # 0
    /\ ~streams[es.conn].open
    /\ es.delivered = Len(streams[es.conn].frames)

\* the error event an event source fires when the server ends the response
StreamEnded(id) ==
    /\ id \in DOMAIN sources
    /\ ServerEnded(sources[id])
    /\ OnError(id)

\* the error event of a connection that fails or drops
ConnectionLost(id) ==
    /\ id \in DOMAIN sources
    /\ ~ServerEnded(sources[id])
    /\ OnError(id)

\* a client that asks the server to delete the records of the jobs it drops
DeletedOnServer(ids) ==
    /\ reports' = [id \in DOMAIN reports \ ids |-> reports[id]]
    /\ UNCHANGED <<timers, streams, issued, now, ticks, requests, res>>

\* what handleRemoveJob and handleCancelAll do to the server for the jobs they
\* drop: they send no request, and the status route has no listener for the
\* close of a connection
ServerAfterDrop(ids) == UNCHANGED svars

\* handleRemoveJob(jobId)
RemoveJob(jobId) ==
    /\ jobId \in JobIds(jobs)
    /\ Commit(WithoutJob(jobs, jobId), RegistryAfterRemove(sources, jobId))
    /\ showDownloadSection' =
         IF Len(WithoutJob(jobs, jobId)) = 0 THEN FALSE ELSE showDownloadSection
    /\ closes' = Counted(closes, {jobId} \cap DOMAIN sources)
    /\ removed' = removed \cup {jobId}
    /\ ServerAfterDrop({jobId})
    /\ UNCHANGED <<isStatusOpen, navigated>>

\* handleCancelAll()
CancelAll ==
    /\ jobs # <<>>
    /\ Commit(CompletedJobs(jobs), <<>>)
    /\ showDownloadSection' = FALSE
    /\ closes' = Counted(closes, DOMAIN sources)
    /\ ServerAfterDrop(JobIds(jobs) \ JobIds(CompletedJobs(jobs)))
    /\ UNCHANGED <<isStatusOpen, navigated, removed>>

\* the page is loaded again: the hook is mounted anew from storage, and the
\* event sources of the page that was left are gone with it
Reload ==
    /\ Mount(InitialJobs(storage), <<>>, [id \in UUIDs |-> 0])
    /\ showDownloadSection' = FALSE
    /\ isStatusOpen' = FALSE
    /\ closes' = [id \in UUIDs |-> 0]
    /\ UNCHANGED <<svars, navigated, removed>>

\* the server on its own, answering requests of any origin
Next ==
    \/ \E name \in Names : GenerateRejected(name) /\ UNCHANGED cvars
    \/ \E name \in Names : GenerateAccepted(name) /\ UNCHANGED cvars
    \/ \E t \in timers : CompletionTimer(t) /\ UNCHANGED cvars
    \/ \E jobId \in UUIDs : ReportStatus(jobId) /\ UNCHANGED cvars
    \/ \E i \in DOMAIN streams : PollTimer(i) /\ UNCHANGED cvars
    \/ \E jobId \in UUIDs : DownloadReport(jobId) /\ UNCHANGED cvars
    \/ \E d \in TickSteps : Tick(d) /\ UNCHANGED cvars

Spec == Init /\ [][Next]_vars

\* the page and the server together, with download requests of any origin
ClientNext ==
    \/ \E name \in ClientNames : ClientGenerate(name)
    \/ \E id \in UUIDs : Connect(id)
    \/ \E id \in UUIDs : OnMessage(id)
    \/ \E id \in UUIDs : StreamEnded(id)
    \/ \E id \in UUIDs : ConnectionLost(id)
    \/ \E id \in UUIDs : RemoveJob(id)
    \/ CancelAll
    \/ Reload
    \/ \E t \in timers : CompletionTimer(t) /\ UNCHANGED cvars
    \/ \E i \in DOMAIN streams : PollTimer(i) /\ UNCHANGED cvars
    \/ \E jobId \in UUIDs : DownloadReport(jobId) /\ UNCHANGED cvars
    \/ \E d \in TickSteps : Tick(d) /\ UNCHANGED cvars

ClientSpec == Init /\ [][ClientNext]_vars

\* ------------------------------------ the hook variant with a local registry

\* one run of the variant's connection effect on the list js: the registry is
\* a local object, empty at the start of every run, so an event source is
\* opened for every pending job of the list
VariantEffect(js) == ConnectionEffect(js, <<>>)

\* after a handler left the list js: the render commits the list, the cleanup
\* of the last run of the connection effect closes every event source that
\* run opened, the effect runs again because the list is a new array, and the
\* persistence effect writes the list to storage
VariantCommit(js) ==
    /\ jobs' = js
    /\ sources' = VariantEffect(js)
    /\ opens' = Counted(opens, DOMAIN VariantEffect(js))
    /\ closes' = Counted(closes, DOMAIN sources)
    /\ storage' = JSONstringify(js)

\* generateReport in the variant
VariantGenerate(name) ==
    /\ GenerateAccepted(name)
    /\ res'.code = 200
    /\ VariantCommit(Append(jobs, NewJob(res'.body.jobId, name)))
    /\ showDownloadSection' = TRUE
    /\ isStatusOpen' = TRUE
    /\ UNCHANGED <<navigated, removed>>

\* eventSource.onmessage of the variant on the next frame of the stream of
\* job id
VariantOnMessage(id) ==
    /\ id \in DOMAIN sources
    /\ sources[id].delivered < Len(FramesFor(sources[id]))
    /\ LET data == FramesFor(sources[id])[sources[id].delivered + 1]
           Update(j) == IF j.id = id THEN UpdatedJob(j, data) ELSE j
           triggers == {j \in {jobs[i] : i \in DOMAIN jobs} :
                          j.id = id /\ ShouldDownload(j, data)}
       IN  /\ navigated' = Counted(navigated, {j.id : j \in triggers})
           /\ VariantCommit([i \in DOMAIN jobs |-> Update(jobs[i])])
    /\ UNCHANGED <<svars, showDownloadSection, isStatusOpen, removed>>

\* eventSource.onerror of the variant
VariantOnError(id) ==
    /\ LET Fail(j) == IF j.id = id THEN FailedJob(sources[id].job) ELSE j
       IN  VariantCommit([i \in DOMAIN jobs |-> Fail(jobs[i])])
    /\ UNCHANGED <<svars, showDownloadSection, isStatusOpen, navigated, removed>>

\* the error event of an event source of the variant.  Every message is
\* followed by the cleanup, which closes the event source it came on, so that
\* the error event of a response the server ended after its frames is never
\* delivered: an error event is that of a connection that fails or drops
VariantConnectionLost(id) ==
    /\ id \in DOMAIN sources
    /\ VariantOnError(id)

\* handleRemoveJob(jobId) of the variant
VariantRemoveJob(jobId) ==
    /\ jobId \in JobIds(jobs)
    /\ VariantCommit(WithoutJob(jobs, jobId))
    /\ showDownloadSection' =
         IF Len(WithoutJob(jobs, jobId)) = 0 THEN FALSE ELSE showDownloadSection
    /\ removed' = removed \cup {jobId}
    /\ UNCHANGED <<svars, isStatusOpen, navigated>>

\* handleCancelAll() of the variant
VariantCancelAll ==
    /\ jobs # <<>>
    /\ VariantCommit(CompletedJobs(jobs))
    /\ showDownloadSection' = FALSE
    /\ UNCHANGED <<svars, isStatusOpen, navigated, removed>>

\* the page with the variant is loaded again
VariantReload ==
    /\ jobs' = InitialJobs(storage)
    /\ sources' = VariantEffect(InitialJobs(storage))
    /\ opens' = Counted([id \in UUIDs |-> 0], DOMAIN VariantEffect(InitialJobs(storage)))
    /\ closes' = [id \in UUIDs |-> 0]
    /\ storage' = JSONstringify(InitialJobs(storage))
    /\ showDownloadSection' = FALSE
    /\ isStatusOpen' = FALSE
    /\ UNCHANGED <<svars, navigated, removed>>

\* the page with the variant hook and the server together
VariantNext ==
    \/ \E name \in ClientNames : VariantGenerate(name)
    \/ \E id \in UUIDs : Connect(id)
    \/ \E id \in UUIDs : VariantOnMessage(id)
    \/ \E id \in UUIDs : VariantConnectionLost(id)
    \/ \E id \in UUIDs : VariantRemoveJob(id)
    \/ VariantCancelAll
    \/ VariantReload
    \/ \E t \in timers : CompletionTimer(t) /\ UNCHANGED cvars
    \/ \E i \in DOMAIN streams : PollTimer(i) /\ UNCHANGED cvars
    \/ \E jobId \in UUIDs : DownloadReport(jobId) /\ UNCHANGED cvars
    \/ \E d \in TickSteps : Tick(d) /\ UNCHANGED cvars

VariantSpec == Init /\ [][VariantNext]_vars

\* ------------------------------------------------------------ properties

Statuses == {"pending", "completed", "failed"}

\* the ids present before and after a step
Kept == DOMAIN reports \cap DOMAIN reports'

\* C1: the status of a job id only ever goes from pending to completed or
\* from pending to failed; a completed or failed record never changes status
C1_StatusForward ==
    [][\A id \in Kept :
         reports'[id].status # reports[id].status
           => /\ reports[id].status = "pending"
              /\ reports'[id].status \in {"completed", "failed"}]_vars

\* a completed record is in the store and a later request was served from it
C1_Witness ==
    /\ \E id \in DOMAIN reports : reports[id].status = "completed"
    /\ res.route = "download"
    /\ res.code = 200

\* the answer of a request is an error that carries no record and no CSV
IsErrorResponse(r) == r.code >= 400 /\ DOMAIN r.body = {"error"}

\* the stream opened by the step was written one error frame and ended
OpenedWithError ==
    /\ Len(streams') = Len(streams) + 1
    /\ LET s == streams'[Len(streams')]
       IN  /\ ~s.open
           /\ Len(s.frames) = 1
           /\ DOMAIN s.frames[1] = {"error"}

\* C2: for an expired job of any status, the first status-stream open or
\* download request returns an error and removes the job from the store
C2_ExpiredEvictedOnAccess ==
    [][\A id \in DOMAIN reports :
         IsExpired(reports[id])
           => /\ ReportStatus(id) => (OpenedWithError /\ ~MapHas(reports', id))
              /\ DownloadReport(id)
                   => (IsErrorResponse(res') /\ ~MapHas(reports', id))]_vars

\* C3: a download request for a job in the store that is not completed is
\* answered 400 'Report is not ready for download' and changes nothing
C3_NotReady ==
    [][\A id \in DOMAIN reports :
         (reports[id].status # "completed" /\ DownloadReport(id))
           => /\ res'.route = "download"
              /\ res'.code = 400
              /\ res'.body = [error |-> "Report is not ready for download"]
              /\ reports' = reports
              /\ timers' = timers
              /\ streams' = streams]_vars

\* a download was answered NotReady while a pending job is in the store
C3_Witness ==
    /\ res.route = "download"
    /\ res.code = 400
    /\ res.body = [error |-> "Report is not ready for download"]
    /\ \E id \in DOMAIN reports : reports[id].status = "pending"

\* the CSV that belongs to a name, read off the name alone
CsvOfName(name) ==
    IF name = JsonString(SalesReport)
    THEN <<"id,name,value\n", "1,Product A,1000\n2,Product B,2000\n3,Product C,3000">>
    ELSE <<"id,name,value\n", "1,Item X,50\n2,Item Y,75\n3,Item Z,100">>

\* C4: every download of a completed, non-expired job returns the CSV that
\* its name determines and changes neither the record nor the rest of the store
C4_DownloadIdempotent ==
    [][\A id \in DOMAIN reports :
         (reports[id].status = "completed" /\ ~IsExpired(reports[id])
            /\ DownloadReport(id))
           => /\ res'.code = 200
              /\ res'.body.csv = CsvOfName(reports[id].name)
              /\ reports' = reports
              /\ timers' = timers
              /\ streams' = streams]_vars

\* a download returned the sales CSV and the record it came from is unchanged
C4_Witness ==
    /\ res.route = "download"
    /\ res.code = 200
    /\ res.body.csv = CsvOfName(JsonString(SalesReport))
    /\ \E id \in DOMAIN reports :
         /\ reports[id].status = "completed"
         /\ reports[id].name = JsonString(SalesReport)
         /\ ~IsExpired(reports[id])

\* the name is absent, or is the empty string
AbsentOrEmpty(name) == name = JsonUndefined \/ name = JsonString(<<>>)

\* C5: a generation request with an absent or empty name is answered 400 and
\* inserts no record, changes no record and schedules no timer
C5_ValidationNoEffect ==
    [][\A name \in Names :
         (AbsentOrEmpty(name) /\ GenerateReport(name))
           => /\ res'.route = "generate"
              /\ res'.code = 400
              /\ res'.body = [error |-> "Report name is required"]
              /\ reports' = reports
              /\ timers' = timers
              /\ issued' = issued]_vars

\* a generation request was rejected while a job was in the store
C5_Witness ==
    /\ res.route = "generate"
    /\ res.code = 400
    /\ DOMAIN reports # {}

\* C6: a download request for an id that is not in the store is answered 404
\* 'Report not found' and leaves the store unchanged
C6_UnknownNotFound ==
    [][\A id \in UUIDs :
         (~MapHas(reports, id) /\ DownloadReport(id))
           => /\ res'.route = "download"
              /\ res'.code = 404
              /\ res'.body = [error |-> "Report not found"]
              /\ reports' = reports
              /\ timers' = timers]_vars

\* a download of an evicted id was answered 404
C6_Witness ==
    /\ res.route = "download"
    /\ res.code = 404
    /\ issued \ DOMAIN reports # {}

\* the frame is a job record (it carries a status), not an error frame
IsRecordFrame(f) == "status" \in DOMAIN f

\* C7: a stream opened on an existing, non-expired job (its first frame is the
\* record) ends, when the server closes it, with a completed or failed record,
\* and every frame before the last carries status pending
C7_StreamEndsTerminal ==
    \A i \in DOMAIN streams :
      LET f == streams[i].frames
      IN  (IsRecordFrame(f[1]) /\ ~streams[i].open)
            => /\ IsRecordFrame(f[Len(f)])
               /\ f[Len(f)].status \in {"completed", "failed"}
               /\ \A k \in 1..(Len(f) - 1) :
                    IsRecordFrame(f[k]) /\ f[k].status = "pending"

\* the step is a generation request that inserted a record
GenerateInserted ==
    /\ requests' # requests
    /\ res'.route = "generate"
    /\ reports' # reports

\* C8 (the step of a request): a generation request that inserts a record
\* inserts exactly one pending record under a fresh id, answers 200 with that
\* id, and schedules the completion of that id
C8_InsertReturnsIdAndSchedules ==
    [][GenerateInserted
         => \E id \in DOMAIN reports' \ DOMAIN reports :
              /\ reports' = MapSet(reports, id, reports'[id])
              /\ reports'[id].status = "pending"
              /\ res'.code = 200
              /\ res'.body = [jobId |-> id]
              /\ \E t \in timers' \ timers : t.jobId = id]_vars

\* the payload of a record goes with its status
PayloadMatchesStatus(r) ==
    /\ r.status \in Statuses
    /\ ("filePath" \in DOMAIN r) <=> (r.status = "completed")
    /\ ("error" \in DOMAIN r) <=> (r.status = "failed")

\* C9: while an id is in the store its name and createdAt stay as written at
\* creation, a record changes only by the one transition out of pending, and
\* filePath is present exactly when completed, error exactly when failed
C9_RecordStable ==
    [][/\ \A id \in DOMAIN reports' : PayloadMatchesStatus(reports'[id])
       /\ \A id \in Kept :
            /\ reports'[id].name = reports[id].name
            /\ reports'[id].createdAt = reports[id].createdAt
            /\ reports'[id] # reports[id]
                 => /\ reports[id].status = "pending"
                    /\ reports'[id].status \in {"completed", "failed"}]_vars

\* a record was completed some time after its creation
C9_Witness ==
    \E id \in DOMAIN reports :
      /\ reports[id].status = "completed"
      /\ reports[id].createdAt < now
      /\ "filePath" \in DOMAIN reports[id]

DownloadedIds(js) == {js[i].id : i \in {k \in DOMAIN js : js[k].downloaded}}

\* the frame the next message event of the stream of job id carries
NextData(id) == FramesFor(sources[id])[sources[id].delivered + 1]

\* the frame carries the status field with this value
HasStatus(data, status) == "status" \in DOMAIN data /\ data.status = status

\* C11: the download navigation is triggered at most once per job id; it is
\* triggered exactly by a message with status completed delivered while the
\* job is not marked downloaded, the same update marks the job downloaded, and
\* a job marked downloaded stays marked for as long as it is in the list
C11_DownloadOnce ==
    [][\A id \in UUIDs :
          /\ navigated'[id] <= 1
          /\ navigated'[id] \in {navigated[id], navigated[id] + 1}
          /\ navigated'[id] = navigated[id] + 1 <=>
                /\ OnMessage(id)
                /\ HasStatus(NextData(id), "completed")
                /\ id \in JobIds(jobs) \ DownloadedIds(jobs)
          /\ navigated'[id] = navigated[id] + 1 => id \in DownloadedIds(jobs')
          /\ id \in DownloadedIds(jobs) /\ id \in JobIds(jobs') =>
                id \in DownloadedIds(jobs')]_vars

\* a job whose download was triggered is in the list, marked downloaded, after
\* a pending message and the completed message were delivered on its stream
C11_Witness ==
    \E id \in JobIds(jobs) :
        /\ navigated[id] = 1
        /\ id \in DownloadedIds(jobs)
        /\ StatusOf(JobWithId(jobs, id)) = "completed"
        /\ closes[id] = 1


\* the list js with the element at position k taken out
Without(js, k) == SubSeq(js, 1, k - 1) \o SubSeq(js, k + 1, Len(js))

\* an event of the stream of job id reaches one of its handlers
StreamEvent(id) == OnMessage(id) \/ StreamEnded(id) \/ ConnectionLost(id)

\* C12: removing a job takes exactly that job out of the list, closes and
\* deregisters its event source if it has one, leaves the other jobs and
\* event sources as they were, and hides the panel exactly when the list
\* becomes empty; a removed id is never in the list or the registry again and
\* no event of its stream is handled
C12_RemoveJob ==
    [][\A id \in UUIDs :
          /\ RemoveJob(id) =>
                /\ \E k \in DOMAIN jobs : jobs[k].id = id /\ jobs' = Without(jobs, k)
                /\ DOMAIN sources' = DOMAIN sources \ {id}
                /\ \A x \in DOMAIN sources' : sources'[x] = sources[x]
                /\ closes' = [closes EXCEPT ![id] =
                                 IF id \in DOMAIN sources THEN @ + 1 ELSE @]
                /\ opens' = opens
                /\ showDownloadSection' = (showDownloadSection /\ jobs' # <<>>)
          /\ id \in removed' =>
                /\ id \notin JobIds(jobs')
                /\ id \notin DOMAIN sources'
          /\ id \in removed => ~StreamEvent(id)]_vars

\* a job was removed while its stream was open, another job is still listed
\* with the panel shown, and the server has completed the removed job since
C12_Witness ==
    \E id \in removed :
        /\ closes[id] = 1
        /\ jobs # <<>>
        /\ showDownloadSection
        /\ DOMAIN sources # {}
        /\ MapHas(reports, id)
        /\ reports[id].status = "completed"


\* the job is failed with the error the onerror handler gives
IsConnectionFailed(j) ==
    /\ StatusOf(j) = "failed"
    /\ "error" \in DOMAIN j.status.data
    /\ j.status.data.error = "Connection error"

FailedIds(js) == {js[i].id : i \in {k \in DOMAIN js : IsConnectionFailed(js[k])}}

\* the error event of the stream of job id reaches onerror
ErrorEvent(id) == StreamEnded(id) \/ ConnectionLost(id)

\* C13: an error event on the stream of a job leaves the job failed with
\* 'Connection error' and its event source closed and deregistered; from then
\* on no event source is opened for the job, no download is triggered for it,
\* and it stays failed for as long as it is in the list, whatever happens to
\* the server record
C13_ErrorIsFinal ==
    [][\A id \in UUIDs :
          /\ ErrorEvent(id) =>
                /\ id \in FailedIds(jobs')
                /\ id \notin DOMAIN sources'
                /\ closes'[id] = closes[id] + 1
                /\ opens' = opens
          /\ id \in FailedIds(jobs) =>
                /\ id \notin DOMAIN sources'
                /\ opens'[id] \in {opens[id], 0}
                /\ navigated'[id] = navigated[id]
                /\ id \in JobIds(jobs') => id \in FailedIds(jobs')]_vars

\* the connection of a job was lost while it was pending, the server has
\* completed the job since, and the job is still failed and never downloaded
C13_Witness ==
    \E id \in FailedIds(jobs) :
        /\ MapHas(reports, id)
        /\ reports[id].status = "completed"
        /\ navigated[id] = 0
        /\ opens[id] = 1
        /\ closes[id] = 1


PendingIds(js) == {js[i].id : i \in {k \in DOMAIN js : StatusOf(js[k]) = "pending"}}

\* C14: in every state of a page session, every pending job of the list has
\* a registered event source, every registered event source belongs to a job
\* of the list, each id has had at most one event source opened and at most
\* one closed, and an id has an event source registered exactly when one was
\* opened for it and not yet closed
C14_OneStreamPerJob ==
    /\ PendingIds(jobs) \subseteq DOMAIN sources
    /\ DOMAIN sources \subseteq JobIds(jobs)
    /\ \A id \in UUIDs :
          /\ opens[id] <= 1
          /\ closes[id] <= opens[id]
          /\ id \in DOMAIN sources <=> opens[id] = closes[id] + 1

\* two jobs in one page session: the stream of one was opened and closed on
\* its completed message, the stream of the other is open and registered
C14_Witness ==
    \E a, b \in JobIds(jobs) :
        /\ opens[a] = 1 /\ closes[a] = 1 /\ StatusOf(JobWithId(jobs, a)) = "completed"
        /\ opens[b] = 1 /\ closes[b] = 0 /\ b \in DOMAIN sources


\* the positions of the completed jobs of a list
CompletedAt(js) == {k \in DOMAIN js : StatusOf(js[k]) = "completed"}

\* ks holds exactly the n least elements of S
Least(ks, S, n) ==
    /\ ks \subseteq S
    /\ Cardinality(ks) = n
    /\ \A k \in ks : \A other \in S \ ks : k < other

\* C15: cancel-all leaves in the list exactly the jobs that were completed,
\* unchanged and in the order they had, leaves no event source registered,
\* closes every event source that was registered, and hides the panel
C15_CancelAll ==
    [][CancelAll =>
          /\ Len(jobs') = Cardinality(CompletedAt(jobs))
          /\ \A i \in DOMAIN jobs' :
                \E k \in CompletedAt(jobs) :
                    /\ jobs'[i] = jobs[k]
                    /\ Least({x \in CompletedAt(jobs) : x <= k}, CompletedAt(jobs), i)
          /\ sources' = <<>>
          /\ closes' = [id \in UUIDs |->
                           IF id \in DOMAIN sources THEN closes[id] + 1 ELSE closes[id]]
          /\ opens' = opens
          /\ ~showDownloadSection']_vars

\* cancel-all was used on a list with a completed job and a pending job: the
\* completed job is all that is left, no event source is registered, and the
\* stream of the dropped job was closed
C15_Witness ==
    /\ Len(jobs) = 1
    /\ StatusOf(jobs[1]) = "completed"
    /\ sources = <<>>
    /\ ~showDownloadSection
    /\ \E id \in UUIDs \ JobIds(jobs) : id \notin removed /\ opens[id] = 1 /\ closes[id] = 1


\* the positions of the stored jobs that are not completed and younger than
\* the expiry time
LiveAt(js) ==
    {k \in DOMAIN js : StatusOf(js[k]) # "completed" /\ now - js[k].createdAt < ExpiryTime}

\* C16: after every step the storage key holds exactly the list of the step,
\* and a reload starts from exactly the stored jobs that are not completed and
\* whose age is below the expiry time, in their order; none of them has had
\* its download triggered, and a job whose download was triggered is
\* completed and has no event source
C16_StorageAndReload ==
    [][/\ storage'.present
       /\ JSONparse(storage') = jobs'
       /\ \A i \in DOMAIN jobs' :
             navigated'[jobs'[i].id] > 0 =>
                 StatusOf(jobs'[i]) = "completed" /\ jobs'[i].id \notin DOMAIN sources'
       /\ Reload =>
             /\ Len(jobs') = Cardinality(LiveAt(storage.jobs))
             /\ \A i \in DOMAIN jobs' :
                   /\ \E k \in LiveAt(storage.jobs) :
                         /\ jobs'[i] = storage.jobs[k]
                         /\ Least({x \in LiveAt(storage.jobs) : x <= k},
                                  LiveAt(storage.jobs), i)
                   /\ navigated'[jobs'[i].id] = 0
             /\ navigated' = navigated]_vars

\* the page was loaded again after one job had completed and been
\* downloaded: that job is gone from the list and from storage, and the other
\* job, still pending, is back with a new event source
C16_Witness ==
    \E id \in UUIDs \ (JobIds(jobs) \cup removed) :
        /\ navigated[id] = 1
        /\ opens[id] = 0
        /\ Len(jobs) = 1
        /\ StatusOf(jobs[1]) = "pending"
        /\ jobs[1].id \in DOMAIN sources
        /\ storage.jobs = jobs


\* a frame without a status field: 'Report not found' or 'Report expired'
IsErrorFrame(data) == "status" \notin DOMAIN data

\* the server has ended the stream ss[es.conn] and the event source es has
\* been delivered every frame of it
EndedFor(es, ss) ==
    /\ es.conn # 0
    /\ ~ss[es.conn].open
    /\ es.delivered = Len(ss[es.conn].frames)

\* C17: every error event of a stream leaves the job failed and its event
\* source closed and deregistered, with no event source opened; a message
\* that carries an error frame leaves the job without a status and its event
\* source registered on a stream the server has ended, so that the error
\* event of the ended stream is the event that follows, and until then the
\* event source is not touched
C17_ErrorPathsFail ==
    [][\A id \in UUIDs :
          /\ ErrorEvent(id) =>
                /\ id \in FailedIds(jobs')
                /\ DOMAIN sources' = DOMAIN sources \ {id}
          /\ OnMessage(id) /\ IsErrorFrame(NextData(id)) =>
                /\ StatusOf(JobWithId(jobs', id)) = "undefined"
                /\ id \in DOMAIN sources'
                /\ EndedFor(sources'[id], streams')
                /\ closes' = closes
          /\ id \in DOMAIN sources /\ EndedFor(sources[id], streams) =>
                \/ id \notin DOMAIN sources'
                \/ sources'[id] = sources[id] /\ EndedFor(sources'[id], streams')]_vars

\* the server answered the stream of a job with 'Report expired' and ended
\* it, and the frame was delivered: the job has no status, its event source
\* is still registered, and the error event of the ended stream is due
C17_Witness ==
    \E id \in DOMAIN sources :
        /\ StatusOf(JobWithId(jobs, id)) = "undefined"
        /\ EndedFor(sources[id], streams)
        /\ streams[sources[id].conn] = EndedStream(id, ExpiredFrame)
        /\ closes[id] = 0


\* the ids the server gave out that the page no longer lists
Dropped == issued \ JobIds(jobs)

\* C18: a removal or a cancel-all leaves every part of the server state as it
\* was; for a job the page no longer lists, a pending record still has its
\* completion timer, the timer sets the record to completed when it fires,
\* and a download request on the completed record, not yet expired, is
\* answered 200 with the CSV and leaves the record in the store
C18_DropLeavesServer ==
    [][/\ (CancelAll \/ \E id \in UUIDs : RemoveJob(id)) =>
             /\ UNCHANGED <<reports, timers, streams, issued, now, requests, res>>
             /\ DOMAIN reports' = DOMAIN reports
       /\ \A id \in Dropped :
             /\ MapHas(reports, id) /\ reports[id].status = "pending" =>
                   \E t \in timers : t.jobId = id
             /\ \A t \in timers :
                   t.jobId = id /\ CompletionTimer(t) =>
                       MapHas(reports', id) /\ reports'[id].status = "completed"
             /\ /\ DownloadReport(id)
                /\ MapHas(reports, id)
                /\ reports[id].status = "completed"
                /\ ~IsExpired(reports[id])
                => /\ res'.code = 200
                   /\ res'.body.csv = CsvOfName(reports[id].name)
                   /\ reports' = reports]_vars

\* a job was removed from the page before any completed message for it; the
\* server completed it all the same and answered a download request for it
\* with the CSV
C18_Witness ==
    \E id \in removed :
        /\ issued = {id}
        /\ closes[id] = 1
        /\ navigated[id] = 0
        /\ MapHas(reports, id)
        /\ reports[id].status = "completed"
        /\ res.route = "download"
        /\ res.code = 200


\* ------------------------------------------ further properties of the server

\* the frames written on the status streams so far
WrittenFrames(ss) == UNION {{ss[i].frames[k] : k \in DOMAIN ss[i].frames} : i \in DOMAIN ss}

\* C19: no record of the store ever has status failed and no frame written on
\* a status stream ever has status failed; every firing of a completion timer
\* finds the record of its job pending and leaves it completed
C19_NeverFailed ==
    [][/\ \A id \in DOMAIN reports' : reports'[id].status # "failed"
       /\ \A frame \in WrittenFrames(streams') : ~HasStatus(frame, "failed")
       /\ \A t \in timers :
             CompletionTimer(t) =>
                 /\ MapHas(reports, t.jobId)
                 /\ reports[t.jobId].status = "pending"
                 /\ reports'[t.jobId].status = "completed"]_vars

\* a completion timer has fired and a status stream has reported the
\* completed record and ended
C19_Witness ==
    \E i \in DOMAIN streams :
        /\ ~streams[i].open
        /\ MapHas(reports, streams[i].jobId)
        /\ reports[streams[i].jobId].status = "completed"
        /\ \E frame \in WrittenFrames(streams) : HasStatus(frame, "completed")
        /\ \A t \in timers : t.jobId # streams[i].jobId


\* C20: every open status stream is one whose poll loop is going to stop: the
\* record of its job is missing, or completed or failed, or pending with the
\* completion timer of the job still scheduled
C20_PollLoopsStop ==
    \A i \in DOMAIN streams :
        streams[i].open =>
            \/ ~MapHas(reports, streams[i].jobId)
            \/ IsTerminal(reports[streams[i].jobId])
            \/ \E t \in timers : t.jobId = streams[i].jobId


\* the ids the server gave out whose record is no longer in the store: a
\* record is stored with the id it is given and leaves the store only by an
\* expiry check
Evicted == issued \ DOMAIN reports

\* C21: an id evicted from the store by an expiry check is never in the store
\* again, and no completion timer is scheduled for it when it is evicted or
\* afterwards
C21_EvictedStaysOut ==
    [][/\ \A id \in Evicted : id \notin DOMAIN reports'
       /\ \A id \in issued' \ DOMAIN reports' : \A t \in timers' : t.jobId # id]_vars

\* a job was completed by its timer, then evicted by an expiry check of the
\* download route more than 30 minutes after its creation
C21_Witness ==
    \E id \in Evicted :
        /\ res = DownloadExpired
        /\ now > ExpiryWindow
        /\ timers = {}


\* ------------------------------------------- properties of the hook variant

\* C22: while a job stays pending in the list, the event source opened for it
\* stays the one it has: a step that leaves the job pending (a pending message
\* for it, or a change to another job) neither closes its event source nor
\* opens another one for it
C22_OneStreamWhilePending ==
    [][\A id \in PendingIds(jobs) \cap PendingIds(jobs') :
          id \in DOMAIN sources =>
              /\ id \in DOMAIN sources'
              /\ opens'[id] = opens[id]
              /\ closes'[id] = closes[id]]_vars

====
